---- MODULE Spec2Model ----
(***************************************************************************)
(* The prompt-generation pipeline of prompt-gen-agent: the /create_prompt  *)
(* handler (api/routers/prompt.py), the PromptGenCrew task lists (crew.py  *)
(* of both packages) run by Crew.kickoff under Process.sequential, and the *)
(* placeholder decoding the input-analysis task prescribes.                *)
(***************************************************************************)
EXTENDS Integers, Sequences, FiniteSets, TLC

\* Concurrent HTTP requests (FastAPI runs a sync handler on a thread pool).
Runs == {"r1", "r2"}

\* Two different validated PromptGenInput bodies.
Requests == {"reqA", "reqB"}

VARIABLES
    pkg,          \* which package's PromptGenCrew is deployed
    env,          \* the model behind the invocation layer: "llm" or "stub"
    pc,           \* position of each request's handler thread
    request,      \* the PromptGenInput each handler was called with
    inst,         \* crew_instance of each handler (local variable)
    inputs,       \* PromptGenCrew.inputs, per crew instance
    outputs,      \* the task outputs held by a crew instance's tasks, in order
    stage,        \* index of the task in flight / last finished, per handler
    seen,         \* what the task in flight was given: inputs and context
    invoked,      \* history: the tasks started by each run, in order
    result,       \* what crew().kickoff() returned or raised
    response,     \* what create_prompt returned or raised
    cancelled_at, \* -1, or the number of tasks started when the client cancelled
    retries,      \* retries the agent made within the task call in flight
    attempts,     \* history: attempts at executing a task, over the whole run
    placeholders, \* input_placeholders handed to the decoding
    decoded       \* decoded_placeholders produced so far

vars == <<pkg, env, pc, request, inst, inputs, outputs, stage, seen, invoked,
          result, response, cancelled_at, retries, attempts, placeholders,
          decoded>>

pipeVars == <<pkg, env, pc, request, inst, inputs, outputs, stage, seen,
              invoked, result, response, cancelled_at, retries, attempts>>

decodeVars == <<placeholders, decoded>>

retryVars == <<retries, attempts>>

-----------------------------------------------------------------------------
(* JSON values and Python truthiness                                       *)

Absent == [t |-> "absent"]

Null == [t |-> "null"]

Str(s) == [t |-> "str", s |-> s]

List(l) == [t |-> "list", l |-> l]

\* A JSON object, by the two keys the handler reads.
Dict(fp, ns) == [t |-> "dict", final_prompt |-> fp, notes |-> ns]

FinalPromptValues == {Absent, Null, Str(""), Str("P")}

NotesValues == {Absent, Null, List(<<>>), List(<<"n1">>), Str("oops")}

Dicts == {Dict(fp, ns) : fp \in FinalPromptValues, ns \in NotesValues}

\* Python's `not v`.
Falsy(v) ==
    \/ v.t \in {"absent", "null"}
    \/ v.t = "str" /\ v.s = ""
    \/ v.t = "list" /\ v.l = <<>>
    \/ v.t = "dict" /\ v.final_prompt = Absent /\ v.notes = Absent

\* dict.get(key) and dict.get(key, default): a missing key gives the default.
Get(v, dflt) == IF v = Absent THEN dflt ELSE v

-----------------------------------------------------------------------------
(* Raw texts of the model and json.loads                                   *)

Prose == [text |-> "prose"]

EmptyText == [text |-> "empty"]

JsonText(v) == [text |-> "json", val |-> v]

IsJson(raw) == raw.text = "json"

\* json.loads(raw): the decoded value, or JSONDecodeError.
JSONDecodeError == [t |-> "JSONDecodeError"]

\* Faulty variant: every text is rejected.
MutLoadsFails(raw) == JSONDecodeError

json_loads(raw) == IF IsJson(raw) THEN raw.val ELSE JSONDecodeError

\* What a task before the last may answer: the handler never reads it.
MidTexts == {Prose, JsonText(Dict(Absent, Absent))}

\* What the last task may answer.
LastTexts == {Prose, EmptyText, JsonText(List(<<>>))} \cup {JsonText(d) : d \in Dicts}

\* A language model may answer any of them.
FullEnv == [mid |-> MidTexts, last |-> LastTexts]

\* A stub model answers JSON before the last task, and a final prompt or
\* prose at the last.
StubEnv == [mid |-> {JsonText(Dict(Absent, Absent))},
            last |-> {Prose, JsonText(Dict(Str("P"), List(<<"n1">>)))}]

Answers(e) == IF e = "llm" THEN FullEnv ELSE StubEnv

\* Exceptions the model-invocation layer raises out of a task.
Faults == {"Timeout", "TransportError"}

-----------------------------------------------------------------------------
(* The crews                                                               *)

Packages == {"prompt_gen", "prompt-gen"}

\* tasks=[...] of the five-task crew.
tasks5 == <<"domain_breakdown_task", "input_analysis_task", "schema_inference_task",
            "prompt_construction_task", "prompt_refinement_task">>

\* tasks=[...] of the four-task crew.
tasks4 == <<"gather_user_requirements_task", "interpret_requirements_task",
            "craft_prompt_task", "refine_prompt_task">>

crew == IF pkg = "prompt_gen" THEN tasks5 ELSE tasks4

\* context=[...] of each Task.
context(task) ==
    CASE task = "domain_breakdown_task" -> {}
      [] task = "input_analysis_task" -> {"domain_breakdown_task"}
      [] task = "schema_inference_task" -> {"input_analysis_task"}
      [] task = "prompt_construction_task" -> {"schema_inference_task"}
      [] task = "prompt_refinement_task" -> {"prompt_construction_task"}
      [] task = "gather_user_requirements_task" -> {}
      [] task = "interpret_requirements_task" -> {"gather_user_requirements_task"}
      [] task = "craft_prompt_task" -> {"interpret_requirements_task"}
      [] task = "refine_prompt_task" -> {"craft_prompt_task"}

\* The tasks whose output a task's description names ("{{output from
\* <task>}}", or "{{output}}" for the draft or text of the task before it).
refers(task) ==
    CASE task = "domain_breakdown_task" -> {}
      [] task = "input_analysis_task" -> {"domain_breakdown_task"}
      [] task = "schema_inference_task" -> {"input_analysis_task"}
      [] task = "prompt_construction_task" ->
           {"domain_breakdown_task", "input_analysis_task", "schema_inference_task"}
      [] task = "prompt_refinement_task" -> {"prompt_construction_task"}
      [] task = "gather_user_requirements_task" -> {}
      [] task = "interpret_requirements_task" -> {"gather_user_requirements_task"}
      [] task = "craft_prompt_task" -> {"interpret_requirements_task"}
      [] task = "refine_prompt_task" -> {"craft_prompt_task"}

\* Position of a task in the crew's list.
IndexOf(task) == CHOOSE i \in 1..Len(crew) : crew[i] = task

\* Process.sequential: the task after the k-th is the (k+1)-th.
\* Faulty variant: the second task of the list is passed over.
MutSkipTask(k) == IF k = 1 THEN 3 ELSE k + 1

NextTask(k) == k + 1

\* crew_instance = PromptGenCrew(): every call of the handler makes its own.
\* Faulty variant: one crew instance serves every request.
MutSharedCrew(r) == "r1"

PromptGenCrew(r) == r

NoInputs == "empty"

NoSeen == [inputs |-> NoInputs, context |-> {}]

NoResult == [kind |-> "none"]

NoResponse == [status |-> "none"]

\* The instruction of task k built from a crew instance: the captured inputs
\* and the outputs of the tasks named in context=[...].
Instruction(c, k) ==
    [inputs |-> inputs[c],
     context |-> {[task |-> t, about |-> outputs[c][IndexOf(t)].about] :
                    t \in {u \in context(crew[k]) : IndexOf(u) <= Len(outputs[c])}}]

\* CrewOutput.json_dict of the last task's answer: None, or the parsed object.
JsonDictOf(raw) ==
    {Null} \cup (IF IsJson(raw) /\ raw.val.t = "dict" THEN {raw.val} ELSE {})

CrewOutput(raw, jd) == [kind |-> "output", raw |-> raw, json_dict |-> jd]

Raised(exc) == [kind |-> "raised", exc |-> exc]

-----------------------------------------------------------------------------
(* create_prompt                                                           *)

HTTPException(code, detail) ==
    [status |-> "HTTPException", status_code |-> code, detail |-> detail]

NonJsonDetail(raw_output) ==
    [msg |-> "Agent returned non-JSON output. Raw response was:", raw |-> raw_output]

NoStructureDetail == [msg |-> "No valid JSON structure from final prompt."]

NoFinalPromptDetail == [msg |-> "No 'final_prompt' in the final JSON."]

Success(fp, ns) == [status |-> "success", final_prompt |-> fp, notes |-> ns]

\* Faulty variant: every exception is reported as non-JSON output.
MutCatchAll(exc) == HTTPException(500, NonJsonDetail(EmptyText))

\* An exception out of kickoff is not caught by the handler.
Propagated(exc) == [status |-> "raised", exc |-> exc]

\* Faulty variant: final_prompt is not checked.
MutNoPromptCheck(final_data) ==
    IF final_data.t # "dict"
    THEN HTTPException(500, NoStructureDetail)
    ELSE Success(Get(final_data.final_prompt, Null), Get(final_data.notes, List(<<>>)))

\* Lines 35-43: the checks on the parsed final data and the success body.
Respond(final_data) ==
    IF final_data.t # "dict"
    THEN HTTPException(500, NoStructureDetail)
    ELSE LET final_prompt == Get(final_data.final_prompt, Null)
         IN  IF Falsy(final_prompt)
             THEN HTTPException(500, NoFinalPromptDetail)
             ELSE Success(final_prompt, Get(final_data.notes, List(<<>>)))

\* Lines 18-43: what the handler answers for what kickoff gave.
create_prompt(res) ==
    IF res.kind = "raised"
    THEN Propagated(res.exc)
    ELSE IF ~Falsy(res.json_dict)
         THEN Respond(res.json_dict)
         ELSE LET raw_output == res.raw
                  parsed == json_loads(raw_output)
              IN  IF parsed = JSONDecodeError
                  THEN HTTPException(500, NonJsonDetail(raw_output))
                  ELSE Respond(parsed)

-----------------------------------------------------------------------------
(* Steps of a handler thread                                               *)

\* Line 15: crew_instance = PromptGenCrew(); __init__ sets inputs = {}.
NewCrew(r) ==
    /\ pc[r] = "idle"
    /\ LET c == PromptGenCrew(r)
       IN  /\ inst' = [inst EXCEPT ![r] = c]
           /\ inputs' = [inputs EXCEPT ![c] = NoInputs]
           /\ outputs' = [outputs EXCEPT ![c] = <<>>]
    /\ pc' = [pc EXCEPT ![r] = "created"]
    /\ UNCHANGED <<pkg, env, request, stage, seen, invoked, result, response,
                   cancelled_at, decodeVars, retryVars>>

\* Line 16, entry of kickoff: @before_kickoff capture_inputs.
capture_inputs(r) ==
    /\ pc[r] = "created"
    /\ inputs' = [inputs EXCEPT ![inst[r]] = request[r]]
    /\ pc' = [pc EXCEPT ![r] = "ready"]
    /\ UNCHANGED <<pkg, env, request, inst, outputs, stage, seen, invoked,
                   result, response, cancelled_at, decodeVars, retryVars>>

\* kickoff starts the next task of the list.
StartTask(r) ==
    /\ pc[r] = "ready"
    /\ LET k == NextTask(stage[r])
       IN  /\ k <= Len(crew)
           /\ stage' = [stage EXCEPT ![r] = k]
           /\ seen' = [seen EXCEPT ![r] = Instruction(inst[r], k)]
           /\ invoked' = [invoked EXCEPT ![r] = Append(@, crew[k])]
    /\ retries' = [retries EXCEPT ![r] = 0]
    /\ attempts' = [attempts EXCEPT ![r] = @ + 1]
    /\ pc' = [pc EXCEPT ![r] = "running"]
    /\ UNCHANGED <<pkg, env, request, inst, inputs, outputs, result, response,
                   cancelled_at, decodeVars>>

\* The task in flight answers with a raw text; after the last task kickoff
\* returns the CrewOutput.
FinishTask(r) ==
    /\ pc[r] = "running"
    /\ \E raw \in (IF stage[r] >= Len(crew) THEN Answers(env).last ELSE Answers(env).mid) :
         /\ outputs' = [outputs EXCEPT
                          ![inst[r]] = Append(@, [raw |-> raw, about |-> seen[r].inputs])]
         /\ IF stage[r] >= Len(crew)
            THEN /\ \E jd \in JsonDictOf(raw) :
                      result' = [result EXCEPT ![r] = CrewOutput(raw, jd)]
                 /\ pc' = [pc EXCEPT ![r] = "returned"]
            ELSE /\ result' = result
                 /\ pc' = [pc EXCEPT ![r] = "ready"]
    /\ UNCHANGED <<pkg, env, request, inst, inputs, stage, seen, invoked,
                   response, cancelled_at, decodeVars, retryVars>>

\* The task in flight raises: kickoff raises, no further task is started.
TaskRaises(r) ==
    /\ pc[r] = "running"
    /\ \E exc \in Faults : result' = [result EXCEPT ![r] = Raised(exc)]
    /\ pc' = [pc EXCEPT ![r] = "returned"]
    /\ UNCHANGED <<pkg, env, request, inst, inputs, outputs, stage, seen,
                   invoked, response, cancelled_at, decodeVars, retryVars>>

\* max_retry_limit=2 of every Agent.
max_retry_limit == 2

\* Faulty variant: one retry more than the limit.
MutRetryOnceMore(n) == n <= max_retry_limit

\* The agent retries a failed execution while it has made fewer retries
\* than its limit.
MayRetry(n) == n < max_retry_limit

\* Inside the model-invocation layer: the attempt in flight fails and the
\* agent executes the same task again; kickoff sees nothing of it.
RetryTask(r) ==
    /\ pc[r] = "running"
    /\ MayRetry(retries[r])
    /\ retries' = [retries EXCEPT ![r] = @ + 1]
    /\ attempts' = [attempts EXCEPT ![r] = @ + 1]
    /\ UNCHANGED <<pkg, env, pc, request, inst, inputs, outputs, stage, seen,
                   invoked, result, response, cancelled_at, decodeVars>>

\* Lines 18-43: the handler answers.
Answer(r) ==
    /\ pc[r] = "returned"
    /\ response' = [response EXCEPT ![r] = create_prompt(result[r])]
    /\ pc' = [pc EXCEPT ![r] = "done"]
    /\ UNCHANGED <<pkg, env, request, inst, inputs, outputs, stage, seen,
                   invoked, result, cancelled_at, decodeVars, retryVars>>

\* The client gives up on a request in flight; no line of the handler or of
\* the crew reads this.
Cancel(r) ==
    /\ pc[r] \in {"created", "ready", "running"}
    /\ cancelled_at[r] = -1
    /\ cancelled_at' = [cancelled_at EXCEPT ![r] = Len(invoked[r])]
    /\ UNCHANGED <<pkg, env, pc, request, inst, inputs, outputs, stage, seen,
                   invoked, result, response, decodeVars, retryVars>>

-----------------------------------------------------------------------------
(* Placeholder decoding, as instruction 1 of input_analysis_task has it    *)
(* done.  A placeholder is a sequence of tokens.                           *)

Alphabet == {"<<", ">>", ":", " ", "a"}

MaxStrLen == 4

MaxPlaceholders == 2

Strings == UNION {[1..n -> Alphabet] : n \in 0..MaxStrLen}

\* "<<title: The product name>>"
ExTitle == <<"<<", "title", ":", " ", "The", " ", "product", " ", "name", ">>">>

\* "<<features>>"
ExFeatures == <<"<<", "features", ">>">>

\* "a: b: c"
ExChain == <<"a", ":", " ", "b", ":", " ", "c">>

Examples == {ExTitle, ExFeatures, ExChain}

\* The lists the decoding is run on: examples, with any one string among them.
PlaceholderLists ==
    UNION {[1..n -> Examples]
             \cup {[l EXCEPT ![i] = s] : l \in [1..n -> Examples], i \in 1..n, s \in Strings}
           : n \in 0..MaxPlaceholders}

SetMin(S) == CHOOSE x \in S : \A y \in S : x <= y

SetMax(S) == CHOOSE x \in S : \A y \in S : y <= x

\* The text without the blanks around it.
strip(s) ==
    LET solid == {i \in 1..Len(s) : s[i] # " "}
    IN  IF solid = {} THEN <<>> ELSE SubSeq(s, SetMin(solid), SetMax(solid))

HasColon(s) == \E i \in 1..Len(s) : s[i] = ":"

\* "split into": the part before the colon and the part after it.
SplitAt(s, i) == [left |-> SubSeq(s, 1, i - 1), right |-> SubSeq(s, i + 1, Len(s))]

\* Faulty variant: the split is made at the last colon.
MutLastColon(s) == SetMax({i \in 1..Len(s) : s[i] = ":"})

ColonAt(s) == SetMin({i \in 1..Len(s) : s[i] = ":"})

\* A placeholder written between << and >>.
Wrapped(s) == Len(s) >= 2 /\ s[1] = "<<" /\ s[Len(s)] = ">>"

Pair(name, description) == [name |-> name, description |-> description]

\* decoded_placeholders lists the pairs in the placeholders' order.
Emit(ds, d) == Append(ds, d)

\* Faulty variant: the parts keep the blanks around them.
MutDecodeNoTrim(p) ==
    LET t == strip(p)
    IN  IF ~HasColon(t)
        THEN Pair(t, <<>>)
        ELSE IF Wrapped(t)
             THEN LET inner == SubSeq(t, 2, Len(t) - 1)
                      parts == SplitAt(inner, ColonAt(inner))
                  IN  Pair(<<"<<">> \o parts.left \o <<">>">>, parts.right)
             ELSE LET parts == SplitAt(t, ColonAt(t))
                  IN  Pair(parts.left, parts.right)

\* Instruction 1: a placeholder with a colon is split into name and
\* description, the name keeping its << >> ("<<title: The product name>>"
\* gives "<<title>>" and "The product name"); otherwise the description is
\* left blank.
Decode(p) ==
    LET t == strip(p)
    IN  IF ~HasColon(t)
        THEN Pair(t, <<>>)
        ELSE IF Wrapped(t)
             THEN LET inner == SubSeq(t, 2, Len(t) - 1)
                      parts == SplitAt(inner, ColonAt(inner))
                  IN  Pair(<<"<<">> \o strip(parts.left) \o <<">>">>, strip(parts.right))
             ELSE LET parts == SplitAt(t, ColonAt(t))
                  IN  Pair(strip(parts.left), strip(parts.right))

\* The next placeholder of the list is decoded.
DecodeNext ==
    /\ Len(decoded) < Len(placeholders)
    /\ decoded' = Emit(decoded, Decode(placeholders[Len(decoded) + 1]))
    /\ UNCHANGED <<placeholders, pipeVars>>

-----------------------------------------------------------------------------
(* Specifications                                                          *)

InitPipe(arrived, e) ==
    /\ pkg \in Packages
    /\ env = e
    /\ request \in [Runs -> Requests]
    /\ pc = [r \in Runs |-> IF r \in arrived THEN "idle" ELSE "absent"]
    /\ inst = [r \in Runs |-> "none"]
    /\ inputs = [c \in Runs |-> NoInputs]
    /\ outputs = [c \in Runs |-> <<>>]
    /\ stage = [r \in Runs |-> 0]
    /\ seen = [r \in Runs |-> NoSeen]
    /\ invoked = [r \in Runs |-> <<>>]
    /\ result = [r \in Runs |-> NoResult]
    /\ response = [r \in Runs |-> NoResponse]
    /\ cancelled_at = [r \in Runs |-> -1]
    /\ retries = [r \in Runs |-> 0]
    /\ attempts = [r \in Runs |-> 0]

\* One request, any answers of the model.
Init ==
    /\ InitPipe({"r1"}, "llm")
    /\ placeholders = <<>>
    /\ decoded = <<>>

\* Two requests in flight at once, a stub model.
InitConc ==
    /\ InitPipe(Runs, "stub")
    /\ placeholders = <<>>
    /\ decoded = <<>>

Next ==
    \E r \in Runs :
        \/ NewCrew(r)
        \/ capture_inputs(r)
        \/ StartTask(r)
        \/ FinishTask(r)
        \/ TaskRaises(r)
        \/ Answer(r)
        \/ Cancel(r)

Spec == Init /\ [][Next]_vars

SpecConc == InitConc /\ [][Next]_vars

\* One request and a stub model, the agent's retries within a task call
\* made visible.
InitRetry ==
    /\ InitPipe({"r1"}, "stub")
    /\ placeholders = <<>>
    /\ decoded = <<>>

NextRetry ==
    \/ Next
    \/ \E r \in Runs : RetryTask(r)

SpecRetry == InitRetry /\ [][NextRetry]_vars

\* Each handler thread keeps running: nothing in the code parks it.
FairSpec == Init /\ [][Next]_vars /\ WF_vars(Next)

-----------------------------------------------------------------------------
(* Properties                                                              *)

\* The task outputs a run's crew instance holds.
OutputsOf(r) == IF inst[r] = "none" THEN <<>> ELSE outputs[inst[r]]

AllTasksAnswered(r) == Len(OutputsOf(r)) = Len(crew)

\* The raw answer of the last task of a run whose tasks all answered.
FinalRaw(r) == OutputsOf(r)[Len(crew)].raw

Terminal(r) == pc[r] \in {"returned", "done"}

\* The failure kinds, as the handler reports them.
StageOutputInvalid(raw) == HTTPException(500, NonJsonDetail(raw))

FinalResultInvalid == {HTTPException(500, NoStructureDetail),
                       HTTPException(500, NoFinalPromptDetail)}

StageTimeout == [status |-> "raised", exc |-> "Timeout"]

InvocationFailed == [status |-> "raised", exc |-> "TransportError"]

InListOrder(r) ==
    /\ Len(invoked[r]) <= Len(crew)
    /\ invoked[r] = SubSeq(crew, 1, Len(invoked[r]))
    /\ pc[r] = "running" => Len(OutputsOf(r)) = Len(invoked[r]) - 1
    /\ pc[r] = "ready" => Len(OutputsOf(r)) = Len(invoked[r])

\* C1: in every run the tasks are started in the order of the crew's task
\* list, none skipped and none twice, a task is started only when every task
\* before it has answered, and once kickoff has returned or raised no task is
\* started any more.
C1_SequentialOnce ==
    /\ [](\A r \in Runs : InListOrder(r))
    /\ [][\A r \in Runs :
            /\ Terminal(r) => invoked'[r] = invoked[r]
            /\ invoked'[r] # invoked[r] =>
                 /\ Len(OutputsOf(r)) = Len(invoked[r])
                 /\ invoked'[r] = Append(invoked[r], crew[Len(invoked[r]) + 1])]_vars

C1_Witness ==
    \E r \in Runs :
        /\ pc[r] = "done"
        /\ invoked[r] = crew
        /\ response[r].status = "success"

\* C2: whenever the raw answer of task i, whichever i, is not JSON, no task
\* after i is started and the run ends in StageOutputInvalid with that raw
\* answer.
C2_NonJsonAbortsAtThatStage ==
    \A r \in Runs : \A i \in 1..Len(OutputsOf(r)) :
        ~IsJson(OutputsOf(r)[i].raw) =>
            /\ Len(invoked[r]) <= i
            /\ pc[r] = "done" => response[r] = StageOutputInvalid(OutputsOf(r)[i].raw)

\* C3: a run whose last task answered JSON that is no object, or an object
\* without final_prompt or with an empty one, ends in FinalResultInvalid; and
\* a success response carries the last task's final_prompt, which is there
\* and not empty.
C3_NoSuccessWithoutFinalPrompt ==
    \A r \in Runs :
        (pc[r] = "done" /\ AllTasksAnswered(r)) =>
            /\ (/\ IsJson(FinalRaw(r))
                /\ \/ FinalRaw(r).val.t # "dict"
                   \/ FinalRaw(r).val.final_prompt \in {Absent, Str("")})
               => response[r] \in FinalResultInvalid
            /\ response[r].status = "success" =>
                   /\ IsJson(FinalRaw(r))
                   /\ FinalRaw(r).val.t = "dict"
                   /\ response[r].final_prompt = FinalRaw(r).val.final_prompt
                   /\ response[r].final_prompt \notin {Absent, Null, Str("")}

C3_Witness ==
    \E r \in Runs :
        /\ pc[r] = "done"
        /\ AllTasksAnswered(r)
        /\ FinalRaw(r) = JsonText(Dict(Str(""), List(<<"n1">>)))
        /\ response[r] \in FinalResultInvalid

\* Every task of the run answered JSON.
JsonAtEveryStage(r) ==
    /\ AllTasksAnswered(r)
    /\ \A i \in 1..Len(crew) : IsJson(OutputsOf(r)[i].raw)

SuccessWithPrompt(r) ==
    /\ response[r].status = "success"
    /\ response[r].final_prompt \notin {Absent, Null, Str("")}

\* C4, as stated: a run in which every task answered well-formed JSON ends
\* in success with a non-empty final_prompt.
C4_JsonEverywhereSucceeds ==
    \A r \in Runs : (pc[r] = "done" /\ JsonAtEveryStage(r)) => SuccessWithPrompt(r)

\* C4, amended: every run ends, and a run in which every task answered
\* well-formed JSON and the last task's JSON is an object with a non-empty
\* final_prompt ends in success with that final_prompt.
C4_ShapedJsonSucceeds ==
    /\ \A r \in Runs : (pc[r] = "idle") ~> (pc[r] = "done")
    /\ [](\A r \in Runs :
            (/\ pc[r] = "done"
             /\ JsonAtEveryStage(r)
             /\ FinalRaw(r).val.t = "dict"
             /\ ~Falsy(FinalRaw(r).val.final_prompt))
            => /\ SuccessWithPrompt(r)
               /\ response[r].final_prompt = FinalRaw(r).val.final_prompt
               /\ invoked[r] = crew)

C4_Witness ==
    \E r \in Runs :
        /\ pc[r] = "done"
        /\ JsonAtEveryStage(r)
        /\ SuccessWithPrompt(r)

\* C5: with two requests in flight, each run has a crew instance of its own;
\* every task of a run is given that run's request and only outputs made
\* from that run's request; and a step of one run leaves the other run's
\* instance, inputs, outputs, instruction, result and response as they were.
C5_RunsIsolated ==
    /\ [](\A r \in Runs :
            /\ \A q \in Runs \ {r} : inst[r] # "none" => inst[q] # inst[r]
            /\ seen[r] # NoSeen =>
                 /\ seen[r].inputs = request[r]
                 /\ \A x \in seen[r].context : x.about = request[r]
            /\ \A i \in 1..Len(OutputsOf(r)) : OutputsOf(r)[i].about = request[r])
    /\ [][\A r \in Runs :
            (pc'[r] = pc[r] /\ cancelled_at'[r] = cancelled_at[r]) =>
                /\ inst'[r] = inst[r]
                /\ seen'[r] = seen[r]
                /\ result'[r] = result[r]
                /\ response'[r] = response[r]
                /\ inst[r] # "none" =>
                     /\ inputs'[inst[r]] = inputs[inst[r]]
                     /\ outputs'[inst[r]] = outputs[inst[r]]]_vars

C5_Witness ==
    /\ request["r1"] # request["r2"]
    /\ \A r \in Runs :
         /\ pc[r] = "running"
         /\ Len(OutputsOf(r)) >= 1
         /\ seen[r].context # {}

\* C7, as stated: the notes of a success response are a sequence: the last
\* task's notes when it gave a sequence, the empty sequence when it gave
\* none.
C7_NotesIsSequence ==
    \A r \in Runs :
        (pc[r] = "done" /\ response[r].status = "success" /\ AllTasksAnswered(r)) =>
            /\ response[r].notes.t = "list"
            /\ FinalRaw(r).val.notes.t = "list" =>
                   response[r].notes = FinalRaw(r).val.notes
            /\ FinalRaw(r).val.notes = Absent => response[r].notes = List(<<>>)

\* C9: a run whose task timed out ends in StageTimeout and a run whose task
\* failed in transport or authentication ends in InvocationFailed, neither
\* in success nor in StageOutputInvalid; the failed task left no output and
\* no task was started after it.
C9_FailureKindsKept ==
    \A r \in Runs :
        result[r].kind = "raised" =>
            /\ Terminal(r)
            /\ Len(invoked[r]) = stage[r]
            /\ Len(OutputsOf(r)) = Len(invoked[r]) - 1
            /\ pc[r] = "done" =>
                 /\ result[r].exc = "Timeout" => response[r] = StageTimeout
                 /\ result[r].exc = "TransportError" => response[r] = InvocationFailed
                 /\ response[r].status = "raised"

C9_Witness ==
    \E r \in Runs :
        /\ pc[r] = "done"
        /\ result[r] = Raised("Timeout")
        /\ stage[r] = 2
        /\ response[r] = StageTimeout

\* C10, as stated: once a run is cancelled no further task of it is started
\* (the one in flight may finish) and the run does not end in success.
C10_CancelStopsScheduling ==
    \A r \in Runs :
        cancelled_at[r] >= 0 =>
            /\ Len(invoked[r]) <= cancelled_at[r]
            /\ response[r].status # "success"

Blanks(k) == [j \in 1..k |-> " "]

\* The first example of the claim.
TitlePair == Pair(<<"<<", "title", ">>">>, <<"The", " ", "product", " ", "name">>)

FeaturesPair == Pair(<<"<<", "features", ">>">>, <<>>)

ChainPair == Pair(<<"a">>, <<"b", ":", " ", "c">>)

ExamplesDecoded(p, d) ==
    /\ p = ExTitle => d = TitlePair
    /\ p = ExFeatures => d = FeaturesPair
    /\ p = ExChain => d = ChainPair

\* name and description are the trimmed parts of t around its first colon.
SplitsAtFirstColon(t, d) ==
    /\ ~HasColon(d.name)
    /\ strip(d.name) = d.name
    /\ strip(d.description) = d.description
    /\ \E a \in 0..Len(t), b \in 0..Len(t) :
         t = d.name \o Blanks(a) \o <<":">> \o Blanks(b) \o d.description

C11_ReferredOutputsGiven ==
    \A r \in Runs :
        (pkg = "prompt_gen" /\ pc[r] = "running") =>
            \A u \in refers(crew[stage[r]]) :
                /\ u \in context(crew[stage[r]])
                /\ IndexOf(u) < stage[r]
                /\ u \in {x.task : x \in seen[r].context}

NoTaskTwice(r) ==
    \A i, j \in 1..Len(invoked[r]) : invoked[r][i] = invoked[r][j] => i = j

\* C12, as stated: no task is started twice in a run, a task call makes at
\* most 2 attempts, and the attempts of a run are at most twice the number
\* of tasks.
C12_TwoAttemptsPerCall ==
    \A r \in Runs :
        /\ NoTaskTwice(r)
        /\ pc[r] = "running" => retries[r] + 1 <= 2
        /\ attempts[r] <= Len(crew) * 2

\* C12, amended: no task is started twice in a run and none after kickoff
\* raised; a task call makes at most max_retry_limit = 2 retries, that is at
\* most 3 attempts, and the attempts of a run are at most 3 times the number
\* of tasks started, hence of tasks.
C12_TwoRetriesPerCall ==
    \A r \in Runs :
        /\ NoTaskTwice(r)
        /\ result[r].kind = "raised" => Terminal(r)
        /\ retries[r] <= max_retry_limit
        /\ Len(invoked[r]) <= attempts[r]
        /\ attempts[r] <= Len(invoked[r]) * (1 + max_retry_limit)
        /\ attempts[r] <= Len(crew) * 3

C12_Witness ==
    \E r \in Runs :
        /\ pc[r] = "done"
        /\ invoked[r] = crew
        /\ attempts[r] = Len(crew) * 3

\* The decoding alone, on every list of placeholders within the bounds.
InitDecode ==
    /\ InitPipe({}, "stub")
    /\ pkg = "prompt_gen"
    /\ request = [r \in Runs |-> "reqA"]
    /\ placeholders \in PlaceholderLists
    /\ decoded = <<>>

NextDecode == DecodeNext

SpecDecode == InitDecode /\ [][NextDecode]_vars

====
